---- MODULE Spec2Model ----
(***************************************************************************)
(* A model of src/utils/db/db_utils.py: the connection resolver            *)
(* (get_db_url), the scoped session manager (session_scope), the           *)
(* notice-type lookups and seeding, the ingestion workflow                 *)
(* (insert_updated_nightly_file) and the aggregate queries                 *)
(* (revalidation_check).                                                   *)
(*                                                                         *)
(* The relational database is a record of tables, each table a sequence    *)
(* of rows whose primary key is the row's position.  A session is a        *)
(* record holding the objects staged on it and the log of the operations   *)
(* issued on it, in order.  Sessions of other scopes see committed rows    *)
(* only; a session's staged objects reach the tables when it commits.      *)
(***************************************************************************)
EXTENDS Integers, Sequences, FiniteSets, TLC

VARIABLES
    db,        \* the committed tables: notice_type, notice, attachment, link
    schema,    \* which uniqueness constraints the schema declares
    sessions,  \* each caller's sessions so far, in order of acquisition
    pc,        \* each caller's position in the function it runs
    loc,       \* each caller's local variables
    exc,       \* the exception each caller's call ended with ("" if none)
    payload,   \* the part of updated_nightly_data_with_predictions iterated so far
    mode,      \* how the callers of the seeding are scheduled
    env,       \* the process environment read by get_db_url
    result     \* the value returned by the last pure call

vars == <<db, schema, sessions, pc, loc, exc, payload, mode, env, result>>

(***************************************************************************)
(* Bounds of the model.                                                    *)
(***************************************************************************)
MaxKeys == 2      \* notice-type keys in one payload
MaxRecs == 2      \* notice records in one payload, over all its keys
MaxRuns == 2      \* seeding runs, over all callers
MaxNotices == 2   \* rows of the notice table a lookup is tried against
MaxLookups == 1   \* lookups tried against one database
MaxExtra == 2     \* attachments past the revalidation threshold

Callers == {1, 2}

(***************************************************************************)
(* Python values.                                                          *)
(***************************************************************************)
None == <<>>
Some(x) == <<x>>

Min(S) == CHOOSE x \in S : \A y \in S : x <= y

\* add_notice_types, line 71: the five fixed codes, in the order of the loop
NoticeTypes == <<"MOD", "COMBINE", "PRESOL", "AMDCSS", "TRAIN">>

Range(f) == {f[i] : i \in DOMAIN f}

(***************************************************************************)
(* Sessions.                                                               *)
(***************************************************************************)
Event(op, arg, err) == [op |-> op, arg |-> arg, err |-> err]

Logged(s, op, arg, err) == [s EXCEPT !.log = Append(@, Event(op, arg, err))]

\* session = dal.Session()
NewSession(owner) ==
    [owner |-> owner, open |-> TRUE, txn |-> FALSE, pending |-> <<>>,
     log |-> <<Event("acquire", "", "")>>]

Acquire(ss, owner) == Append(ss, NewSession(owner))

\* a query executed on session sid: the session begins a transaction if it
\* has none; the statement fails when the database cannot be reached
Execute(ss, sid, arg, ok) ==
    [ss EXCEPT ![sid] =
        [Logged(@, "query", arg, IF ok THEN "" ELSE "OperationalError")
            EXCEPT !.txn = TRUE]]

\* session.add(obj): staged on the session, written at the next flush
Add(ss, sid, obj, arg) ==
    [ss EXCEPT ![sid] = [Logged(@, "add", arg, "") EXCEPT !.pending = Append(@, obj)]]

(***************************************************************************)
(* The database.  A flush writes a session's staged objects inside the     *)
(* session's transaction; it stops at the first statement that fails, and  *)
(* the rows written until then exist only inside that transaction.         *)
(***************************************************************************)
EmptyDb == [notice_type |-> <<>>, notice |-> <<>>, attachment |-> <<>>, link |-> <<>>]

Flushed(d, err) == [db |-> d, err |-> err]

\* the schema's constraint on notice_type.notice_type
CodeTaken(d, sch, code) == sch.uniqueCode /\ code \in Range(d.notice_type)

\* the schema's constraint on notice.notice_number
NumberTaken(d, sch, number) ==
    sch.uniqueSolnbr /\ \E i \in DOMAIN d.notice : d.notice[i].notice_number = number

AttachmentRows(notice_id, attachments) ==
    [j \in DOMAIN attachments |->
        [notice_id |-> notice_id,
         attachment_url |-> attachments[j].attachment_url,
         validation |-> attachments[j].validation,
         trained |-> attachments[j].trained]]

LinkRows(notice_id, notice_types) ==
    [j \in DOMAIN notice_types |-> <<notice_id, notice_types[j][1].id>>]

\* a flush that skips a None in the collection and writes no link for it
FlushLinks_SkipsNone(d, notice_id, notice_types) ==
    Flushed([d EXCEPT !.link = @ \o LinkRows(notice_id,
                SelectSeq(notice_types, LAMBDA t : t # None))], "")

\* the flush of a Notice whose notice_types collection holds None: the
\* mapper refuses it ("Can't flush None value found in collection")
FlushLinks(d, notice_id, notice_types) ==
    IF None \in Range(notice_types)
    THEN Flushed(d, "FlushError")
    ELSE Flushed([d EXCEPT !.link = @ \o LinkRows(notice_id, notice_types)], "")

FlushNotice(d, sch, obj) ==
    IF NumberTaken(d, sch, obj.notice_number)
    THEN Flushed(d, "IntegrityError")
    ELSE LET notice_id == Len(d.notice) + 1
             row == [notice_number |-> obj.notice_number, agency |-> obj.agency,
                     notice_data |-> obj.notice_data, compliant |-> obj.compliant]
             d1 == [d EXCEPT !.notice = Append(@, row),
                             !.attachment = @ \o AttachmentRows(notice_id, obj.attachments)]
         IN FlushLinks(d1, notice_id, obj.notice_types)

FlushNoticeType(d, sch, obj) ==
    IF CodeTaken(d, sch, obj.notice_type)
    THEN Flushed(d, "IntegrityError")
    ELSE Flushed([d EXCEPT !.notice_type = Append(@, obj.notice_type)], "")

FlushOne(d, sch, obj) ==
    IF obj.kind = "Notice" THEN FlushNotice(d, sch, obj) ELSE FlushNoticeType(d, sch, obj)

RECURSIVE Flush(_, _, _)
Flush(d, sch, objs) ==
    IF objs = <<>> THEN Flushed(d, "")
    ELSE LET r == FlushOne(d, sch, Head(objs))
         IN IF r.err # "" THEN r ELSE Flush(r.db, sch, Tail(objs))

\* session.commit(): flush, then commit; ok is whether the database answers
Commit(d, sch, objs, ok) ==
    IF ok THEN Flush(d, sch, objs) ELSE Flushed(d, "OperationalError")

\* a rollback that leaves the rows the failed flush had written
Rollback_KeepsFlushed(before, inTxn) == inTxn

\* session.rollback(): the tables as they were before the transaction
Rollback(before, inTxn) == before

\* session_scope with close() after commit() instead of in a finally clause
ScopeExit_NoFinally(ss, d, sch, sid, bodyErr, ok) ==
    LET s0 == Logged(ss[sid], "yield", "", bodyErr)
        c == Commit(d, sch, s0.pending, ok)
        s1 == IF bodyErr = "" THEN Logged(s0, "commit", "", c.err) ELSE s0
        err == IF bodyErr # "" THEN bodyErr ELSE c.err
        s2 == IF err # "" THEN Logged(s1, "rollback", "", "") ELSE s1
        s3 == IF err # "" THEN [s2 EXCEPT !.txn = FALSE, !.pending = <<>>]
              ELSE [Logged(s2, "close", "", "")
                       EXCEPT !.open = FALSE, !.txn = FALSE, !.pending = <<>>]
    IN [sessions |-> [ss EXCEPT ![sid] = s3],
        db |-> IF err = "" THEN c.db ELSE Rollback(d, c.db),
        err |-> err]

(***************************************************************************)
(* session_scope, from the point where the body of the with statement      *)
(* ends: bodyErr is the exception the body raised ("" if it completed).    *)
(* The result is the sessions, the tables and the exception that leaves    *)
(* the with statement.                                                     *)
(***************************************************************************)
ScopeExit(ss, d, sch, sid, bodyErr, ok) ==
    LET s0 == Logged(ss[sid], "yield", "", bodyErr)
        c == Commit(d, sch, s0.pending, ok)
        s1 == IF bodyErr = "" THEN Logged(s0, "commit", "", c.err) ELSE s0
        err == IF bodyErr # "" THEN bodyErr ELSE c.err
        s2 == IF err # "" THEN Logged(s1, "rollback", "", "") ELSE s1
        s3 == [Logged(s2, "close", "", "")
                  EXCEPT !.open = FALSE, !.txn = FALSE, !.pending = <<>>]
    IN [sessions |-> [ss EXCEPT ![sid] = s3],
        db |-> IF err = "" THEN c.db ELSE Rollback(d, c.db),
        err |-> err]

(***************************************************************************)
(* The single-row lookups.  Each returns None for no match; first() on an  *)
(* empty result is None, and the AttributeError of None.id is caught.      *)
(***************************************************************************)
\* Query.first(): of several matching rows, the one inserted first
First(rows) == IF rows = {} THEN None ELSE Some(Min(rows))

Returned(value) == [value |-> value, raised |-> ""]

\* a filter that matches no row
fetch_notice_type_id_NeverFinds(notice_type, d) == Returned(None)

fetch_notice_type_id(notice_type, d) ==
    LET row == First({i \in DOMAIN d.notice_type : d.notice_type[i] = notice_type})
    IN IF row = None THEN Returned(None) ELSE Returned(Some(row[1]))

fetch_notice_type_by_id(notice_type_id, d) ==
    IF notice_type_id # None /\ notice_type_id[1] \in DOMAIN d.notice_type
    THEN Returned(Some([id |-> notice_type_id[1],
                        notice_type |-> d.notice_type[notice_type_id[1]]]))
    ELSE Returned(None)

\* the lookup without its except clause: None.id raises
fetch_notice_id_Uncaught(notice_number, d) ==
    LET row == First({i \in DOMAIN d.notice : d.notice[i].notice_number = notice_number})
    IN IF row = None THEN [value |-> None, raised |-> "AttributeError"]
       ELSE Returned(Some(row[1]))

fetch_notice_id(notice_number, d) ==
    LET row == First({i \in DOMAIN d.notice : d.notice[i].notice_number = notice_number})
    IN IF row = None THEN Returned(None) ELSE Returned(Some(row[1]))

fetch_notice_by_id(notice_id, d) ==
    IF notice_id # None /\ notice_id[1] \in DOMAIN d.notice
    THEN Returned(Some([id |-> notice_id[1],
                        notice_number |-> d.notice[notice_id[1]].notice_number]))
    ELSE Returned(None)

(***************************************************************************)
(* Callers.                                                                *)
(***************************************************************************)
NoRecord == [solnbr |-> "", agency |-> "", compliant |-> 0, attachments |-> <<>>]

NoLocals == [i |-> 0, outer |-> 0, ntid |-> None, obj |-> None, rec |-> NoRecord, runs |-> 0,
             validated |-> None, trained |-> None]

NoEnv == [VCAP_APPLICATION |-> None, DATABASE_URL |-> None, TEST_DB_URL |-> None]

NoResult == [fn |-> "", arg |-> None, unchanged |-> TRUE, value |-> None, raised |-> ""]

DeclaredSchema == [uniqueCode |-> TRUE, uniqueSolnbr |-> TRUE]

SeededDb == [EmptyDb EXCEPT !.notice_type = NoticeTypes]

\* Python's truth test of a lookup's result: None and 0 are false
Not(v) == v = None \/ v[1] = 0

NoticeTypeObj(code) == [kind |-> "NoticeType", notice_type |-> code]

\* an exception leaves the caller's function: the call is over
Raised(c, err, onRaise) ==
    /\ exc' = [exc EXCEPT ![c] = err]
    /\ pc' = [pc EXCEPT ![c] = onRaise]
    /\ loc' = [loc EXCEPT ![c].runs = @ + 1]

(***************************************************************************)
(* Seeding: insert_updated_nightly_file lines 107-108 and add_notice_types.*)
(***************************************************************************)
\* line 107: with session_scope(dal) as s
SeedBegin(c, from) ==
    /\ pc[c] = from
    /\ sessions' = [sessions EXCEPT ![c] = Acquire(sessions[c], c)]
    /\ loc' = [loc EXCEPT ![c].outer = Len(sessions[c]) + 1, ![c].i = 1]
    /\ pc' = [pc EXCEPT ![c] = "seed_check"]
    /\ exc' = [exc EXCEPT ![c] = ""]
    /\ UNCHANGED <<db, schema, payload, mode, env, result>>

\* lines 72-73: the lookup of one code, in a scope of its own
SeedCheck(c, onRaise) ==
    /\ pc[c] = "seed_check"
    /\ \E ok \in BOOLEAN :
        LET code == NoticeTypes[loc[c].i]
            s1 == Acquire(sessions[c], c)
            sid == Len(s1)
            s2 == Execute(s1, sid, code, ok)
            found == fetch_notice_type_id(code, db)
            bodyErr == IF ok THEN found.raised ELSE "OperationalError"
            inner == ScopeExit(s2, db, schema, sid, bodyErr, TRUE)
            outer == ScopeExit(inner.sessions, inner.db, schema, loc[c].outer, inner.err, TRUE)
        IN IF inner.err = ""
           THEN /\ sessions' = [sessions EXCEPT ![c] = inner.sessions]
                /\ db' = inner.db
                /\ loc' = [loc EXCEPT ![c].ntid = found.value]
                /\ pc' = [pc EXCEPT ![c] = "seed_stage"]
                /\ UNCHANGED exc
           ELSE /\ sessions' = [sessions EXCEPT ![c] = outer.sessions]
                /\ db' = outer.db
                /\ Raised(c, outer.err, onRaise)
    /\ UNCHANGED <<schema, payload, mode, env, result>>

\* add_notice_types without the test of the lookup's result
ShouldStage_Always(notice_type_id) == TRUE

\* whether add_notice_types stages the code, line 74
ShouldStage(notice_type_id) == Not(notice_type_id)

\* lines 74-76: stage the code on the caller's session if it was not found
SeedStage(c) ==
    /\ pc[c] = "seed_stage"
    /\ LET code == NoticeTypes[loc[c].i]
       IN sessions' = IF ShouldStage(loc[c].ntid)
                      THEN [sessions EXCEPT ![c] =
                               Add(@, loc[c].outer, NoticeTypeObj(code), code)]
                      ELSE sessions
    /\ loc' = [loc EXCEPT ![c].i = @ + 1]
    /\ pc' = [pc EXCEPT ![c] = IF loc[c].i < Len(NoticeTypes) THEN "seed_check"
                                                             ELSE "seed_commit"]
    /\ UNCHANGED <<db, schema, exc, payload, mode, env, result>>

\* line 107, the end of the with statement: the caller's session commits
SeedCommit(c, after, onRaise) ==
    /\ pc[c] = "seed_commit"
    /\ \E ok \in BOOLEAN :
        LET outer == ScopeExit(sessions[c], db, schema, loc[c].outer, "", ok)
        IN /\ sessions' = [sessions EXCEPT ![c] = outer.sessions]
           /\ db' = outer.db
           /\ IF outer.err = ""
              THEN /\ pc' = [pc EXCEPT ![c] = after]
                   /\ loc' = [loc EXCEPT ![c].runs = @ + 1]
                   /\ UNCHANGED exc
              ELSE Raised(c, outer.err, onRaise)
    /\ UNCHANGED <<schema, payload, mode, env, result>>

(***************************************************************************)
(* Ingestion: insert_updated_nightly_file lines 109-133.  The payload is   *)
(* read as the loops reach it: payload holds the keys and records          *)
(* iterated so far.                                                        *)
(***************************************************************************)
PayloadKeys == {"PRESOL", "TRAIN", "OTHER"}

SolNbrs == {"s1", "s2", "s3"}

Doc1 == [prediction |-> 0, url |-> "u1", validation |-> None, trained |-> FALSE]
Doc2 == [prediction |-> 1, url |-> "u2", validation |-> Some(1), trained |-> TRUE]

AttachmentLists == {<<>>, <<Doc1, Doc2>>}

Records == [solnbr : SolNbrs, agency : {"GSA"}, compliant : {1},
            attachments : AttachmentLists]

KeysOf(p) == {p[k].key : k \in DOMAIN p}

RECURSIVE RecordCount(_)
RecordCount(p) == IF p = <<>> THEN 0 ELSE Len(Head(p).records) + RecordCount(Tail(p))

\* a loop over the attachments that misses the last one
BuildNotice_MissesLastAttachment(rec, notice_type_obj) ==
    [kind |-> "Notice",
     notice_number |-> rec.solnbr,
     agency |-> rec.agency,
     notice_data |-> "test",
     compliant |-> rec.compliant,
     attachments |-> [j \in 1..(Len(rec.attachments) - 1) |->
                         [attachment_url |-> rec.attachments[j].url,
                          validation |-> rec.attachments[j].validation,
                          trained |-> rec.attachments[j].trained]],
     notice_types |-> <<notice_type_obj>>]

\* lines 119-131: the Notice, its Attachment children and its notice type
BuildNotice(rec, notice_type_obj) ==
    [kind |-> "Notice",
     notice_number |-> rec.solnbr,
     agency |-> rec.agency,
     notice_data |-> "test",
     compliant |-> rec.compliant,
     attachments |-> [j \in DOMAIN rec.attachments |->
                         [attachment_url |-> rec.attachments[j].url,
                          validation |-> rec.attachments[j].validation,
                          trained |-> rec.attachments[j].trained]],
     notice_types |-> <<notice_type_obj>>]

\* line 109: the next key of the payload, or the end of the payload
NextNoticeType(c) ==
    /\ pc[c] = "next_type"
    /\ \/ /\ pc' = [pc EXCEPT ![c] = "done"]
          /\ UNCHANGED payload
       \/ /\ Len(payload) < MaxKeys
          /\ \E key \in PayloadKeys \ KeysOf(payload) :
                payload' = Append(payload, [key |-> key, records |-> <<>>])
          /\ pc' = [pc EXCEPT ![c] = "fetch_type"]
    /\ UNCHANGED <<db, schema, sessions, loc, exc, mode, env, result>>

\* a lookup in a scope of its own, lines 110-111 and 117-118
LookupScope(c, arg, found, ok) ==
    LET s1 == Acquire(sessions[c], c)
        sid == Len(s1)
        s2 == Execute(s1, sid, arg, ok)
        bodyErr == IF ok THEN found.raised ELSE "OperationalError"
    IN ScopeExit(s2, db, schema, sid, bodyErr, TRUE)

\* lines 110-111
FetchTypeId(c) ==
    /\ pc[c] = "fetch_type"
    /\ \E ok \in BOOLEAN :
        LET key == payload[Len(payload)].key
            found == fetch_notice_type_id(key, db)
            scope == LookupScope(c, key, found, ok)
        IN /\ sessions' = [sessions EXCEPT ![c] = scope.sessions]
           /\ db' = scope.db
           /\ IF scope.err = ""
              THEN /\ loc' = [loc EXCEPT ![c].ntid = found.value]
                   /\ pc' = [pc EXCEPT ![c] = "next_record"]
                   /\ UNCHANGED exc
              ELSE Raised(c, scope.err, "raised")
    /\ UNCHANGED <<schema, payload, mode, env, result>>

\* lines 112-116: the next record under the key, or the end of its list
NextRecord(c) ==
    /\ pc[c] = "next_record"
    /\ \/ /\ pc' = [pc EXCEPT ![c] = "next_type"]
          /\ UNCHANGED <<payload, loc>>
       \/ /\ RecordCount(payload) < MaxRecs
          /\ \E rec \in Records :
                /\ payload' = [payload EXCEPT ![Len(payload)].records = Append(@, rec)]
                /\ loc' = [loc EXCEPT ![c].rec = rec]
          /\ pc' = [pc EXCEPT ![c] = "fetch_obj"]
    /\ UNCHANGED <<db, schema, sessions, exc, mode, env, result>>

\* lines 117-118
FetchTypeObj(c) ==
    /\ pc[c] = "fetch_obj"
    /\ \E ok \in BOOLEAN :
        LET found == fetch_notice_type_by_id(loc[c].ntid, db)
            scope == LookupScope(c, "get", found, ok)
        IN /\ sessions' = [sessions EXCEPT ![c] = scope.sessions]
           /\ db' = scope.db
           /\ IF scope.err = ""
              THEN /\ loc' = [loc EXCEPT ![c].obj = found.value]
                   /\ pc' = [pc EXCEPT ![c] = "persist"]
                   /\ UNCHANGED exc
              ELSE Raised(c, scope.err, "raised")
    /\ UNCHANGED <<schema, payload, mode, env, result>>

\* lines 119-133: build the notice and persist it in a scope of its own
PersistNotice(c) ==
    /\ pc[c] = "persist"
    /\ \E ok \in BOOLEAN :
        LET notice == BuildNotice(loc[c].rec, loc[c].obj)
            s1 == Acquire(sessions[c], c)
            sid == Len(s1)
            s2 == Add(s1, sid, notice, notice.notice_number)
            scope == ScopeExit(s2, db, schema, sid, "", ok)
        IN /\ sessions' = [sessions EXCEPT ![c] = scope.sessions]
           /\ db' = scope.db
           /\ IF scope.err = ""
              THEN /\ pc' = [pc EXCEPT ![c] = "next_record"]
                   /\ UNCHANGED <<exc, loc>>
              ELSE Raised(c, scope.err, "raised")
    /\ UNCHANGED <<schema, payload, mode, env, result>>

Init ==
    /\ db \in {EmptyDb, SeededDb}
    /\ schema = DeclaredSchema
    /\ sessions = [c \in Callers |-> <<>>]
    /\ pc = [c \in Callers |-> IF c = 1 THEN "start" ELSE "off"]
    /\ loc = [c \in Callers |-> NoLocals]
    /\ exc = [c \in Callers |-> ""]
    /\ payload = <<>>
    /\ mode = "sequential"
    /\ env = NoEnv
    /\ result = NoResult

Next ==
    \/ SeedBegin(1, "start")
    \/ SeedCheck(1, "raised")
    \/ SeedStage(1)
    \/ SeedCommit(1, "next_type", "raised")
    \/ NextNoticeType(1)
    \/ FetchTypeId(1)
    \/ NextRecord(1)
    \/ FetchTypeObj(1)
    \/ PersistNotice(1)

Spec == Init /\ [][Next]_vars

(***************************************************************************)
(* Properties of session_scope.                                            *)
(***************************************************************************)
SessionIds == UNION {{<<c, k>> : k \in 1..Len(sessions[c])} : c \in Callers}

Sess(id) == sessions[id[1]][id[2]]

Ops(log) == [k \in DOMAIN log |-> log[k].op]

Errs(log) == [k \in DOMAIN log |-> log[k].err]

YieldAt(log) == Min({k \in DOMAIN log : log[k].op = "yield"})

\* the operations of a scope from the end of its body on
ExitOps(log) == SubSeq(Ops(log), YieldAt(log), Len(log))

ExitErrs(log) == SubSeq(Errs(log), YieldAt(log), Len(log))

Count(log, op) == Cardinality({k \in DOMAIN log : log[k].op = op})

\* the exception a finished scope passed on to its caller
ScopeError(log) ==
    LET errs == {ExitErrs(log)[k] : k \in DOMAIN ExitErrs(log)} \ {""}
    IN IF errs = {} THEN "" ELSE CHOOSE e \in errs : TRUE

CommittedScope(s) ==
    /\ ExitOps(s.log) = <<"yield", "commit", "close">>
    /\ ExitErrs(s.log) = <<"", "", "">>

BodyRaisedScope(s) ==
    /\ ExitOps(s.log) = <<"yield", "rollback", "close">>
    /\ ExitErrs(s.log)[1] # ""

CommitRaisedScope(s) ==
    /\ ExitOps(s.log) = <<"yield", "commit", "rollback", "close">>
    /\ ExitErrs(s.log)[1] = ""
    /\ ExitErrs(s.log)[2] # ""

\* C1: every scope acquires one session; a scope whose body completed
\* commits and then closes; a scope whose body or commit raised rolls back,
\* passes the same exception on to its caller and closes; close happens
\* once and last, and a committed scope is never rolled back.
C1_SessionScopeContract ==
    \A id \in SessionIds :
        LET s == Sess(id)
        IN /\ s.log[1].op = "acquire"
           /\ Count(s.log, "acquire") = 1
           /\ s.open => /\ Count(s.log, "yield") = 0
                        /\ Count(s.log, "commit") = 0
                        /\ Count(s.log, "rollback") = 0
                        /\ Count(s.log, "close") = 0
           /\ ~s.open =>
                /\ Count(s.log, "yield") = 1
                /\ Count(s.log, "close") = 1
                /\ s.log[Len(s.log)].op = "close"
                /\ \A k \in 2..(YieldAt(s.log) - 1) : s.log[k].op \in {"query", "add"}
                /\ \/ CommittedScope(s)
                   \/ BodyRaisedScope(s)
                   \/ CommitRaisedScope(s)
                /\ ~CommittedScope(s) =>
                      /\ pc[s.owner] = "raised"
                      /\ exc[s.owner] = ScopeError(s.log)
                /\ \A k \in DOMAIN s.log :
                      (s.log[k].op = "query" /\ s.log[k].err # "")
                          => (BodyRaisedScope(s) /\ ScopeError(s.log) = s.log[k].err)

\* scopes that committed and, after them, a scope whose commit raised
C1_Witness ==
    /\ \E id \in SessionIds : ~Sess(id).open /\ CommittedScope(Sess(id))
    /\ \E id \in SessionIds :
          /\ ~Sess(id).open
          /\ CommitRaisedScope(Sess(id))
          /\ exc[Sess(id).owner] = "IntegrityError"

(***************************************************************************)
(* Properties of the ingestion.                                            *)
(***************************************************************************)
\* the records iterated so far, each with the key it was listed under
RECURSIVE Flatten(_)
Flatten(p) ==
    IF p = <<>> THEN <<>>
    ELSE [k \in DOMAIN Head(p).records |-> [key |-> Head(p).key, rec |-> Head(p).records[k]]]
         \o Flatten(Tail(p))

ExpectedNotice(e) ==
    [notice_number |-> e.rec.solnbr, agency |-> e.rec.agency,
     notice_data |-> "test", compliant |-> e.rec.compliant]

ExpectedAttachment(notice_id, doc) ==
    [notice_id |-> notice_id, attachment_url |-> doc.url,
     validation |-> doc.validation, trained |-> doc.trained]

RECURSIVE ExpectedAttachments(_, _)
ExpectedAttachments(fl, n) ==
    IF n = 0 THEN <<>>
    ELSE ExpectedAttachments(fl, n - 1)
         \o [j \in DOMAIN fl[n].rec.attachments |->
                ExpectedAttachment(n, fl[n].rec.attachments[j])]

AttachmentsOf(notice_id) ==
    {j \in DOMAIN db.attachment : db.attachment[j].notice_id = notice_id}

LinksOf(notice_id) == {j \in DOMAIN db.link : db.link[j][1] = notice_id}

\* the rows of the first n records, and nothing else, are in the tables
HoldsExactly(n) ==
    LET fl == Flatten(payload)
    IN /\ n \in 0..Len(fl)
       /\ db.notice = [k \in 1..n |-> ExpectedNotice(fl[k])]
       /\ db.attachment = ExpectedAttachments(fl, n)
       /\ Len(db.link) = n
       /\ \A k \in 1..n : db.link[k][1] = k

\* the scope that persists a notice is the one that raised
PersistRaised ==
    /\ pc[1] = "raised"
    /\ sessions[1] # <<>>
    /\ LET last == sessions[1][Len(sessions[1])]
       IN /\ Count(last.log, "add") = 1
          /\ last.log[2].arg \in SolNbrs

\* C2: when persisting the k-th record raises, no row of the k-th record
\* exists after the call, and the rows of records 1..k-1 are all there,
\* as they were committed.
C2_FailedRecordLeavesNoRows ==
    PersistRaised => HoldsExactly(RecordCount(payload) - 1)

\* the second record's commit raised on a constraint, the first is committed
C2_Witness ==
    /\ PersistRaised
    /\ exc[1] \in {"IntegrityError", "FlushError"}
    /\ RecordCount(payload) = 2
    /\ Len(db.notice) = 1

DistinctNumbers(fl) ==
    \A j, k \in DOMAIN fl : fl[j].rec.solnbr = fl[k].rec.solnbr => j = k

SeededKeys(p) == KeysOf(p) \subseteq Range(NoticeTypes)

\* C4: a payload whose keys are among the five codes and whose n records
\* have distinct solicitation numbers is ingested without a constraint
\* error, and once the call is done there are exactly n Notice rows, one
\* link row each, and for each notice as many Attachment rows as its record
\* listed, each carrying that notice's id.
C4_IngestedRowCounts ==
    LET fl == Flatten(payload)
    IN /\ (SeededKeys(payload) /\ DistinctNumbers(fl))
            => exc[1] \notin {"IntegrityError", "FlushError"}
       /\ pc[1] = "done" =>
            /\ Len(db.notice) = Len(fl)
            /\ Len(db.link) = Len(fl)
            /\ \A k \in DOMAIN fl :
                  /\ db.notice[k].notice_number = fl[k].rec.solnbr
                  /\ Cardinality(LinksOf(k)) = 1
                  /\ Cardinality(AttachmentsOf(k)) = Len(fl[k].rec.attachments)
            /\ \A j \in DOMAIN db.attachment : db.attachment[j].notice_id \in DOMAIN fl

\* one key, one record, two attachments: one notice, one link, two attachments
C4_Witness ==
    /\ pc[1] = "done"
    /\ Len(payload) = 1
    /\ payload[1].key \in Range(NoticeTypes)
    /\ Len(payload[1].records) = 1
    /\ Len(payload[1].records[1].attachments) = 2
    /\ Len(db.notice) = 1
    /\ Len(db.link) = 1
    /\ Len(db.attachment) = 2
    /\ \A j \in DOMAIN db.attachment : db.attachment[j].notice_id = 1

\* C10: every committed Notice has exactly one notice-type link, to the row
\* whose code is the payload key its record was listed under; none is
\* committed without a link or with a wrong one, also under a key that is
\* not one of the five seeded codes.
C10_NoticeLinkedToItsKey ==
    LET fl == Flatten(payload)
    IN /\ Len(db.notice) <= Len(fl)
       /\ \A k \in DOMAIN db.notice :
            /\ Cardinality(LinksOf(k)) = 1
            /\ \A j \in LinksOf(k) :
                  /\ db.link[j][2] \in DOMAIN db.notice_type
                  /\ db.notice_type[db.link[j][2]] = fl[k].key

\* a notice is committed under a seeded key, and a record under a key that
\* is not seeded has been refused
C10_Witness ==
    /\ Len(db.notice) = 1
    /\ Len(payload) = 2
    /\ payload[2].key \notin Range(NoticeTypes)
    /\ Len(payload[2].records) = 1
    /\ pc[1] = "raised"
    /\ exc[1] = "FlushError"

(***************************************************************************)
(* Seeding by two callers, each running lines 107-108 (add_notice_types    *)
(* and the commit of its session) up to MaxRuns times, either one call     *)
(* after the other or interleaved, against a table that starts empty.      *)
(***************************************************************************)
InitSeed ==
    /\ db = EmptyDb
    /\ schema \in {[uniqueCode |-> u, uniqueSolnbr |-> TRUE] : u \in BOOLEAN}
    /\ sessions = [c \in Callers |-> <<>>]
    /\ pc = [c \in Callers |-> "idle"]
    /\ loc = [c \in Callers |-> NoLocals]
    /\ exc = [c \in Callers |-> ""]
    /\ payload = <<>>
    /\ mode \in {"sequential", "concurrent"}
    /\ env = NoEnv
    /\ result = NoResult

\* the seeding runs begun so far, over all callers
RunsBegun ==
    LET begun(c) == loc[c].runs + (IF pc[c] = "idle" THEN 0 ELSE 1)
    IN begun(1) + begun(2)

SeedRun(c) ==
    /\ RunsBegun < MaxRuns
    /\ mode = "sequential" => \A other \in Callers \ {c} : pc[other] = "idle"
    /\ SeedBegin(c, "idle")

NextSeed ==
    \E c \in Callers :
        \/ SeedRun(c)
        \/ SeedCheck(c, "idle")
        \/ SeedStage(c)
        \/ SeedCommit(c, "idle", "idle")

SpecSeed == InitSeed /\ [][NextSeed]_vars

\* the session of a seeding caller (the lookups run on sessions of their own)
SeedSession(s) == Count(s.log, "query") = 0

CommittedSeed(s) == SeedSession(s) /\ ~s.open /\ CommittedScope(s)

Staged(s) == {s.log[k].arg : k \in {j \in DOMAIN s.log : s.log[j].op = "add"}}

RowsOf(code) == {i \in DOMAIN db.notice_type : db.notice_type[i] = code}

CommittedSeeds == {id \in SessionIds : CommittedSeed(Sess(id))}

\* C3: with one call after the other, the lookup of a code that is not in
\* the table returns None; once a seeding has committed, the lookup returns
\* an id for each of the five codes; and a further seeding stages nothing,
\* so the table holds exactly one row per code.
C3_SeedingIdempotent ==
    mode = "sequential" =>
        /\ \A c \in Callers :
              pc[c] = "seed_stage" =>
                 LET code == NoticeTypes[loc[c].i]
                 IN /\ RowsOf(code) = {} => loc[c].ntid = None
                    /\ RowsOf(code) # {} => loc[c].ntid # None /\ loc[c].ntid[1] \in RowsOf(code)
        /\ \A code \in Range(NoticeTypes) : Cardinality(RowsOf(code)) <= 1
        /\ CommittedSeeds # {} =>
              /\ \A code \in Range(NoticeTypes) :
                    /\ fetch_notice_type_id(code, db).value # None
                    /\ Cardinality(RowsOf(code)) = 1
              /\ Len(db.notice_type) = Len(NoticeTypes)
        /\ Cardinality({id \in CommittedSeeds : Staged(Sess(id)) # {}}) <= 1
        /\ \A id \in CommittedSeeds :
              Staged(Sess(id)) \in {{}, Range(NoticeTypes)}

\* two seedings have committed one after the other: the second staged nothing
C3_Witness ==
    /\ mode = "sequential"
    /\ Cardinality(CommittedSeeds) >= 2
    /\ \E id \in CommittedSeeds : Staged(Sess(id)) = {}
    /\ \A c \in Callers : pc[c] = "idle"
    /\ Len(db.notice_type) = Len(NoticeTypes)

UniqueViolation(s) ==
    /\ SeedSession(s)
    /\ ~s.open
    /\ CommitRaisedScope(s)
    /\ ScopeError(s.log) = "IntegrityError"

DuplicateCode == \E code \in Range(NoticeTypes) : Cardinality(RowsOf(code)) > 1

\* two callers staged the same code, each having found it absent
BothStaged(s, t) ==
    /\ s.owner # t.owner
    /\ SeedSession(s) /\ SeedSession(t)
    /\ Staged(s) \cap Staged(t) # {}

\* C7: a commit of a seeding hits the uniqueness constraint, or (without
\* the constraint) a code has two rows, only when the callers interleave
\* and both staged that same code; with one call after the other neither
\* happens.
C7_SeedingRaceOnlyWhenInterleaved ==
    /\ mode = "sequential" =>
          /\ ~DuplicateCode
          /\ \A id \in SessionIds : ~UniqueViolation(Sess(id))
    /\ \A id \in SessionIds :
          UniqueViolation(Sess(id)) =>
             /\ schema.uniqueCode
             /\ \E other \in CommittedSeeds : BothStaged(Sess(id), Sess(other))
    /\ DuplicateCode =>
          /\ ~schema.uniqueCode
          /\ \E id, other \in CommittedSeeds : BothStaged(Sess(id), Sess(other))

\* interleaved callers: the second commit raised on the constraint
C7_Witness ==
    /\ mode = "concurrent"
    /\ \E id \in SessionIds :
          /\ UniqueViolation(Sess(id))
          /\ \E other \in CommittedSeeds : BothStaged(Sess(id), Sess(other))
          /\ exc[Sess(id).owner] = "IntegrityError"

(***************************************************************************)
(* The single-row lookups, each called with a session of the caller's      *)
(* scope, against databases with and without the row asked for.            *)
(***************************************************************************)
RECURSIVE SeqsUpTo(_, _)
SeqsUpTo(S, n) ==
    IF n = 0 THEN {<<>>}
    ELSE LET shorter == SeqsUpTo(S, n - 1)
         IN shorter \cup {Append(q, x) : q \in shorter, x \in S}

NoDuplicates(q) == \A j, k \in DOMAIN q : q[j] = q[k] => j = k

NoticeTables ==
    {[k \in DOMAIN q |-> [notice_number |-> q[k], agency |-> "GSA",
                          notice_data |-> "test", compliant |-> 1]] :
        q \in {r \in SeqsUpTo(SolNbrs, MaxNotices) : NoDuplicates(r)}}

LookupCodes == Range(NoticeTypes) \cup {"OTHER"}

LookupIds == {None} \cup {Some(i) : i \in 1..(Len(NoticeTypes) + 1)}

InitLookup ==
    /\ db \in {[EmptyDb EXCEPT !.notice_type = t, !.notice = n] :
                  t \in {<<>>, SubSeq(NoticeTypes, 1, 2), NoticeTypes}, n \in NoticeTables}
    /\ schema = DeclaredSchema
    /\ sessions = [c \in Callers |-> <<>>]
    /\ pc = [c \in Callers |-> IF c = 1 THEN "lookup" ELSE "off"]
    /\ loc = [c \in Callers |-> NoLocals]
    /\ exc = [c \in Callers |-> ""]
    /\ payload = <<>>
    /\ mode = "sequential"
    /\ env = NoEnv
    /\ result = NoResult

\* one lookup, run on the session of a scope of the caller
Lookup(c, fn, arg, found, ok) ==
    /\ pc[c] = "lookup"
    /\ Len(sessions[c]) < MaxLookups
    /\ LET scope == LookupScope(c, fn, found, ok)
       IN /\ sessions' = [sessions EXCEPT ![c] = scope.sessions]
          /\ db' = scope.db
          /\ result' = [fn |-> fn, arg |-> arg, unchanged |-> (scope.db = db),
                        value |-> IF ok THEN found.value ELSE None,
                        raised |-> scope.err]
    /\ UNCHANGED <<schema, pc, loc, exc, payload, mode, env>>

LookupNoticeTypeId(c) ==
    \E code \in LookupCodes, ok \in BOOLEAN :
        Lookup(c, "fetch_notice_type_id", code, fetch_notice_type_id(code, db), ok)

LookupNoticeTypeById(c) ==
    \E id \in LookupIds, ok \in BOOLEAN :
        Lookup(c, "fetch_notice_type_by_id", id, fetch_notice_type_by_id(id, db), ok)

LookupNoticeId(c) ==
    \E number \in SolNbrs, ok \in BOOLEAN :
        Lookup(c, "fetch_notice_id", number, fetch_notice_id(number, db), ok)

LookupNoticeById(c) ==
    \E id \in LookupIds, ok \in BOOLEAN :
        Lookup(c, "fetch_notice_by_id", id, fetch_notice_by_id(id, db), ok)

NextLookup ==
    \/ LookupNoticeTypeId(1)
    \/ LookupNoticeTypeById(1)
    \/ LookupNoticeId(1)
    \/ LookupNoticeById(1)

SpecLookup == InitLookup /\ [][NextLookup]_vars

NoticesNumbered(number) ==
    {i \in DOMAIN db.notice : db.notice[i].notice_number = number}

\* the database answered the lookup's query
Answered == result.fn # "" /\ result.raised # "OperationalError"

\* C6: each single-row lookup returns None when no row matches its code,
\* number or id, returns the matching row's id or object when one does,
\* does not raise when nothing is found, and leaves the tables as they
\* were.
C6_LookupsReturnNoneOrRow ==
    /\ result.unchanged
    /\ Answered => result.raised = ""
    /\ (Answered /\ result.fn = "fetch_notice_type_id") =>
          /\ RowsOf(result.arg) = {} => result.value = None
          /\ RowsOf(result.arg) # {} =>
                result.value # None /\ result.value[1] \in RowsOf(result.arg)
    /\ (Answered /\ result.fn = "fetch_notice_type_by_id") =>
          IF result.arg # None /\ result.arg[1] \in DOMAIN db.notice_type
          THEN /\ result.value # None
               /\ result.value[1].id = result.arg[1]
               /\ result.value[1].notice_type = db.notice_type[result.arg[1]]
          ELSE result.value = None
    /\ (Answered /\ result.fn = "fetch_notice_id") =>
          /\ NoticesNumbered(result.arg) = {} => result.value = None
          /\ NoticesNumbered(result.arg) # {} =>
                result.value # None /\ result.value[1] \in NoticesNumbered(result.arg)
    /\ (Answered /\ result.fn = "fetch_notice_by_id") =>
          IF result.arg # None /\ result.arg[1] \in DOMAIN db.notice
          THEN /\ result.value # None
               /\ result.value[1].id = result.arg[1]
               /\ result.value[1].notice_number = db.notice[result.arg[1]].notice_number
          ELSE result.value = None

\* a solicitation number that no row of a non-empty notice table carries
C6_Witness ==
    /\ result.fn = "fetch_notice_id"
    /\ db.notice # <<>>
    /\ NoticesNumbered(result.arg) = {}
    /\ result.value = None
    /\ result.raised = ""

(***************************************************************************)
(* The aggregate queries: get_validation_count, get_trained_amount and     *)
(* revalidation_check, against attachment tables around the threshold.     *)
(* A Query object is built inside the scope and executed by scalar(),      *)
(* which the code calls after the with statement has ended.                *)
(***************************************************************************)
\* revalidation_check, line 152
RevalidationThreshold == 1000

\* func.count(Attachment.validation): the rows whose validation is not NULL
CountValidation(rows) ==
    Some(Cardinality({j \in DOMAIN rows : rows[j].validation # None}))

\* func.sum(case([(Attachment.trained == True, 1)], else_=0)): NULL over no rows
SumTrained(rows) ==
    IF rows = <<>> THEN None
    ELSE Some(Cardinality({j \in DOMAIN rows : rows[j].trained = TRUE}))

\* int(total): a TypeError for None
ToInt(total) ==
    IF total = None THEN [value |-> None, raised |-> "TypeError"] ELSE Returned(total)

\* lines 152-155
Exceeds(count_of_total_validated, sum_of_trained) ==
    IF (count_of_total_validated - sum_of_trained) > RevalidationThreshold THEN 1 ELSE 0

AttachmentRow(validation, trained) ==
    [notice_id |-> 1, attachment_url |-> "u", validation |-> validation, trained |-> trained]

Repeat(n, row) == [j \in 1..n |-> row]

AttachmentTables ==
    {Repeat(vu, AttachmentRow(Some(1), FALSE)) \o Repeat(ut, AttachmentRow(None, TRUE))
        \o Repeat(vt, AttachmentRow(Some(0), TRUE)) \o Repeat(uu, AttachmentRow(None, FALSE)) :
        vu \in {0} \cup ((RevalidationThreshold - 1)..(RevalidationThreshold + MaxExtra)),
        ut \in 0..MaxExtra, vt \in {0, 1}, uu \in {0, 1}}

OneNotice == [notice_number |-> "s1", agency |-> "GSA", notice_data |-> "test", compliant |-> 1]

InitReval ==
    /\ db \in {IF a = <<>> THEN SeededDb
               ELSE [SeededDb EXCEPT !.notice = <<OneNotice>>, !.link = << <<1, 1>> >>,
                                     !.attachment = a] : a \in AttachmentTables}
    /\ schema = DeclaredSchema
    /\ sessions = [c \in Callers |-> <<>>]
    /\ pc = [c \in Callers |-> IF c = 1 THEN "reval" ELSE "off"]
    /\ loc = [c \in Callers |-> NoLocals]
    /\ exc = [c \in Callers |-> ""]
    /\ payload = <<>>
    /\ mode = "sequential"
    /\ env = NoEnv
    /\ result = NoResult

\* lines 148 and 150: with session_scope(dal) as session
AggregateBegin(c, from, to) ==
    /\ pc[c] = from
    /\ sessions' = [sessions EXCEPT ![c] = Acquire(sessions[c], c)]
    /\ loc' = [loc EXCEPT ![c].outer = Len(sessions[c]) + 1]
    /\ pc' = [pc EXCEPT ![c] = to]
    /\ UNCHANGED <<db, schema, exc, payload, mode, env, result>>

\* lines 136-137 and 142-143: the scope in which the Query is built; no
\* statement is executed in it
QueryScope(c, from, to) ==
    /\ pc[c] = from
    /\ LET s1 == Acquire(sessions[c], c)
           scope == ScopeExit(s1, db, schema, Len(s1), "", TRUE)
       IN /\ sessions' = [sessions EXCEPT ![c] = scope.sessions]
          /\ db' = scope.db
    /\ pc' = [pc EXCEPT ![c] = to]
    /\ UNCHANGED <<schema, loc, exc, payload, mode, env, result>>

\* lines 138-139 and 144-145: scalar() executes the Query on the session of
\* the scope that has ended, int() converts the result; then the with
\* statement of revalidation_check ends
Scalar(c, from, to, field, arg, total) ==
    /\ pc[c] = from
    /\ LET s1 == Execute(sessions[c], Len(sessions[c]), arg, TRUE)
           converted == ToInt(total)
           scope == ScopeExit(s1, db, schema, loc[c].outer, converted.raised, TRUE)
       IN /\ sessions' = [sessions EXCEPT ![c] = scope.sessions]
          /\ db' = scope.db
          /\ IF scope.err = ""
             THEN /\ loc' = [loc EXCEPT ![c][field] = converted.value]
                  /\ pc' = [pc EXCEPT ![c] = to]
                  /\ UNCHANGED exc
             ELSE Raised(c, scope.err, "raised")
    /\ UNCHANGED <<schema, payload, mode, env, result>>

ValidationCount(c) ==
    Scalar(c, "count_scalar", "trained_begin", "validated", "count",
           CountValidation(db.attachment))

TrainedAmount(c) ==
    Scalar(c, "sum_scalar", "compare", "trained", "sum", SumTrained(db.attachment))

\* lines 152-155
Compare(c) ==
    /\ pc[c] = "compare"
    /\ result' = [NoResult EXCEPT !.fn = "revalidation_check",
                     !.value = Some(Exceeds(loc[c].validated[1], loc[c].trained[1]))]
    /\ pc' = [pc EXCEPT ![c] = "done"]
    /\ UNCHANGED <<db, schema, sessions, loc, exc, payload, mode, env>>

NextReval ==
    \/ AggregateBegin(1, "reval", "count_scope")
    \/ QueryScope(1, "count_scope", "count_scalar")
    \/ ValidationCount(1)
    \/ AggregateBegin(1, "trained_begin", "sum_scope")
    \/ QueryScope(1, "sum_scope", "sum_scalar")
    \/ TrainedAmount(1)
    \/ Compare(1)

SpecReval == InitReval /\ [][NextReval]_vars

Validated == Cardinality({j \in DOMAIN db.attachment : db.attachment[j].validation # None})

Trained == Cardinality({j \in DOMAIN db.attachment : db.attachment[j].trained = TRUE})

CallOver(c) == pc[c] \in {"done", "raised"}

\* C5: for every attachment table, the empty one included,
\* revalidation_check returns 1 when the attachments with a validation
\* flag outnumber the trained ones by more than 1000 and 0 otherwise, and
\* it returns rather than raises.
C5_RevalidationCheckReturns ==
    CallOver(1) =>
        /\ pc[1] = "done"
        /\ exc[1] = ""
        /\ result.value = Some(IF Validated - Trained > RevalidationThreshold THEN 1 ELSE 0)

\* C9: no query or flush is issued on a session after its scope has closed
\* it, and once the function has returned no session holds a transaction.
C9_NoUseAfterClose ==
    \A id \in SessionIds :
        LET s == Sess(id)
        IN /\ \A j, k \in DOMAIN s.log :
                 (s.log[j].op = "close" /\ j < k) => s.log[k].op \notin {"query", "add", "commit"}
           /\ CallOver(s.owner) => (~s.open /\ ~s.txn)

(***************************************************************************)
(* get_db_url.  A string is the sequence of its tokens; an environment     *)
(* variable is None when it is not set.                                    *)
(***************************************************************************)
\* str.replace(old, new): every occurrence of old, from the left
RECURSIVE Replace(_, _, _)
Replace(str, old, new) ==
    IF Len(str) < Len(old) THEN str
    ELSE IF SubSeq(str, 1, Len(old)) = old
         THEN new \o Replace(SubSeq(str, Len(old) + 1, Len(str)), old, new)
         ELSE <<Head(str)>> \o Replace(Tail(str), old, new)

\* Python's truth test of os.getenv(name): None and '' are false
Truthy(v) == v # None /\ v[1] # <<>>

\* lines 13-22
get_db_url(e) ==
    LET db_string == IF Truthy(e.VCAP_APPLICATION) THEN e.DATABASE_URL
                     ELSE IF Truthy(e.TEST_DB_URL) THEN e.TEST_DB_URL
                     ELSE Some(<<>>)
    IN IF db_string = None
       THEN [value |-> None, raised |-> "AttributeError"]
       ELSE Returned(Some(Replace(db_string[1], <<"\\", "postgresql">>,
                                  <<"postgresql+psycopg2">>)))

EnvValues ==
    {None, Some(<<>>), Some(<<"postgresql", "://host/db">>),
     Some(<<"\\", "postgresql", "://host/db">>)}

InitUrl ==
    /\ db = EmptyDb
    /\ schema = DeclaredSchema
    /\ sessions = [c \in Callers |-> <<>>]
    /\ pc = [c \in Callers |-> IF c = 1 THEN "url" ELSE "off"]
    /\ loc = [c \in Callers |-> NoLocals]
    /\ exc = [c \in Callers |-> ""]
    /\ payload = <<>>
    /\ mode = "sequential"
    /\ env \in [VCAP_APPLICATION : EnvValues, DATABASE_URL : EnvValues,
                TEST_DB_URL : EnvValues]
    /\ result = NoResult

\* line 35: dal = DataAccessLayer(conn_string = get_db_url())
GetDbUrl(c) ==
    /\ pc[c] = "url"
    /\ LET r == get_db_url(env)
       IN /\ result' = [NoResult EXCEPT !.fn = "get_db_url", !.value = r.value,
                                        !.raised = r.raised]
          /\ exc' = [exc EXCEPT ![c] = r.raised]
          /\ pc' = [pc EXCEPT ![c] = IF r.raised = "" THEN "done" ELSE "raised"]
    /\ UNCHANGED <<db, schema, sessions, loc, payload, mode, env>>

NextUrl == GetDbUrl(1)

SpecUrl == InitUrl /\ [][NextUrl]_vars

\* the connection string a URL is turned into
Normalized(url) == Replace(url, <<"\\", "postgresql">>, <<"postgresql+psycopg2">>)

\* C8: whatever the environment, get_db_url returns a string and does not
\* raise: derived from DATABASE_URL when VCAP_APPLICATION is set, else from
\* TEST_DB_URL when that is set, else the empty string.
C8_GetDbUrlAlwaysReturns ==
    CallOver(1) =>
        /\ exc[1] = ""
        /\ result.value # None
        /\ Truthy(env.VCAP_APPLICATION) =>
              (env.DATABASE_URL # None => result.value[1] = Normalized(env.DATABASE_URL[1]))
        /\ (~Truthy(env.VCAP_APPLICATION) /\ Truthy(env.TEST_DB_URL)) =>
              result.value[1] = Normalized(env.TEST_DB_URL[1])
        /\ (~Truthy(env.VCAP_APPLICATION) /\ ~Truthy(env.TEST_DB_URL)) =>
              result.value[1] = <<>>

====
